---- MODULE Spec2Model ----
(***************************************************************************)
(* A model of github_scraper.py: main(), the GithubScraper operations,     *)
(* call_api (one coroutine per request) and load_json (the join over a     *)
(* batch of asyncio tasks).  The GitHub API is the environment: every GET  *)
(* is answered with a response drawn from a bounded set, and the answer of *)
(* a (url, page) pair is remembered in `source`, so that the same URL      *)
(* answers the same way for the whole run.                                 *)
(***************************************************************************)
EXTENDS Integers, Sequences, FiniteSets, TLC

\* ------------------------------------------------------------------ bounds
\* Non-empty pages one endpoint serves before its first empty page.
MaxPages == 2
\* Items on one page of a list endpoint.
MaxItems == 2
\* Logins one followers / following endpoint returns.
MaxFollow == 1
\* Insertions into one graph.
MaxInserts == 4

\* ------------------------------------------------------- names of the world
OrgPool == <<"orgA", "orgB">>
NamePool == <<"alice", "bob", "carol", "dave", "erin", "frank",
              "grace", "heidi", "ivan", "judy", "mallory", "oscar">>
Name(i) == NamePool[((i - 1) % Len(NamePool)) + 1]
\* The people the follower endpoints talk about.
People == {"alice", "bob", "carol"}

RECURSIVE IndexOf(_, _)
IndexOf(seq, x) ==
    IF seq = <<>> THEN 0
    ELSE IF Head(seq) = x THEN 1
    ELSE LET r == IndexOf(Tail(seq), x) IN IF r = 0 THEN 0 ELSE r + 1

Range(seq) == {seq[i] : i \in DOMAIN seq}

RECURSIVE Flatten(_)
Flatten(ss) == IF ss = <<>> THEN <<>> ELSE Head(ss) \o Flatten(Tail(ss))

\* All orderings of a finite set, as sequences.
RECURSIVE Orderings(_)
Orderings(S) ==
    IF S = {} THEN {<<>>}
    ELSE UNION {{<<x>> \o o : o \in Orderings(S \ {x})} : x \in S}

\* ------------------------------------------------------------ the program
VARIABLES
    profile,   \* which part of the GitHub API the environment varies
    args,      \* parse_args(): argument name -> BOOLEAN
    config,    \* what read_config() finds: "ok", "missing" or "empty"
    orgs,      \* read_organizations() / self.orgs
    source,    \* url -> the responses served so far, page 1 first
    pc,        \* where main() is
    queue,     \* operations main() has still to call, in order
    members,   \* self.members, a dict: [keys: sequence, val: key -> list]
    repos,     \* self.repos
    tasks,     \* the asyncio tasks of the batch(es) being awaited
    locals,    \* what the running operation holds across its awaits
    full_json, \* what the last load_json call returned
    files,     \* the files written below data_directory: name -> content
    exc,       \* the exception that ended main(), or "none"
    log        \* main()'s calls so far, in order

vars == <<profile, args, config, orgs, source, pc, queue, members, repos,
          tasks, locals, full_json, files, exc, log>>

\* vars(argparser.parse_args()): the keys in the order add_argument declares them.
ArgOrder == <<"all", "create_org_repo_csv", "get_repo_contributors",
              "get_members_repos", "get_members_info", "get_starred_repos",
              "generate_follower_network", "generate_memberships_network">>
ArgNames == Range(ArgOrder)

require_members == {"get_members_repos", "get_members_info", "get_starred_repos",
                    "generate_follower_network", "generate_memberships_network"}
require_repos == {"create_org_repo_csv", "get_repo_contributors"}

\* A Python dict keeps its keys in insertion order.
EmptyDict == [keys |-> <<>>, val |-> <<>>]

\* ------------------------------------------------------------------- URLs
ApiUrl(path) == <<"https:", "", "api.github.com">> \o path
\* url.split("/")[-2]
SecondToLast(url) == url[Len(url) - 1]
\* Every URL paginated.
ModeAlwaysPaginated(url) == "paginated"

\* call_api: "Requesting user info doesn't support pagination"
Mode(url) == IF SecondToLast(url) = "users" THEN "single" ELSE "paginated"
\* The endpoint a URL names: its first and last path segment.
Endpoint(url) == <<url[4], url[Len(url)]>>
IsListOf(url, what) == Len(url) >= 6 /\ url[Len(url)] = what

\* ----------------------------------------------------------- tagging
\* for key, value in added_fields.items(): item[key] = value
TagSkipExisting(item, added_fields) ==
    [k \in DOMAIN item \cup DOMAIN added_fields |->
        IF k \in DOMAIN item THEN item[k] ELSE added_fields[k]]

Tag(item, added_fields) ==
    [k \in DOMAIN item \cup DOMAIN added_fields |->
        IF k \in DOMAIN added_fields THEN added_fields[k] ELSE item[k]]

TagAll(items, added_fields) ==
    [i \in DOMAIN items |-> Tag(items[i], added_fields)]

\* ------------------------------------------------------------ nx.DiGraph
\* A DiGraph: node -> attributes, (from, to) -> attributes.
EmptyGraph == [nodes |-> <<>>, edges |-> <<>>]

\* An attribute dict that keeps the value it has.
UpdateKeepingOld(old, new) ==
    [k \in DOMAIN old \cup DOMAIN new |-> IF k \in DOMAIN old THEN old[k] ELSE new[k]]

\* dict.update
Update(old, new) ==
    [k \in DOMAIN old \cup DOMAIN new |-> IF k \in DOMAIN new THEN new[k] ELSE old[k]]

\* graph.add_node(n, **attrs)
AddNode(g, n, attrs) ==
    [g EXCEPT !.nodes = (n :> Update(IF n \in DOMAIN g.nodes THEN g.nodes[n] ELSE <<>>,
                                     attrs)) @@ g.nodes]

\* graph.add_edge(u, v, **attrs): the endpoints become nodes if they are none.
AddEdge(g, u, v, attrs) ==
    LET withU == IF u \in DOMAIN g.nodes THEN g.nodes ELSE (u :> <<>>) @@ g.nodes
        withV == IF v \in DOMAIN withU THEN withU ELSE (v :> <<>>) @@ withU
    IN [nodes |-> withV,
        edges |-> (<<u, v>> :> Update(IF <<u, v>> \in DOMAIN g.edges
                                      THEN g.edges[<<u, v>>] ELSE <<>>, attrs))
                   @@ g.edges]

\* ------------------------------------------------------- the GitHub API
\* A response: what session.get(...) and resp.json() meet.  kind "list" is a
\* JSON array (an empty body ends the pagination), "object" a JSON object,
\* "error_object" the JSON object GitHub sends with a non-success status
\* (resp.status is never read), "wrong_content_type" a body that is not
\* served as JSON (an empty repository), "malformed_json" a body that does not
\* parse, "transport_error" a request that gets no response.
ListResp(items) == [kind |-> "list", body |-> items]
EmptyList == ListResp(<<>>)
ObjectResp(obj) == [kind |-> "object", body |-> <<obj>>]
ErrorObject == [kind |-> "error_object", body |-> <<[message |-> "Not Found"]>>]
Fault(kind) == [kind |-> kind, body |-> <<>>]
FaultKinds == {"transport_error", "wrong_content_type", "malformed_json"}
Faults == {Fault(k) : k \in FaultKinds} \cup {ErrorObject}

User(login) == [login |-> login]
Repo(name) == [name |-> name]

OrgOffset(org) == IF IndexOf(OrgPool, org) = 0 THEN 0 ELSE IndexOf(OrgPool, org) - 1

\* The j-th member an organization's members endpoint lists; every second one
\* carries a field named like a context key.
MemberItem(org, j) ==
    IF j % 2 = 0
    THEN [login |-> Name(OrgOffset(org) + j), organization |-> "upstream"]
    ELSE User(Name(OrgOffset(org) + j))

ItemsServed(served) == Len(Flatten([p \in DOMAIN served |-> served[p].body]))

\* The member lists the organizations of the follower world may have: two
\* members of one organization when it is scraped alone, one member each (the
\* same person or not) when two are.
MemberLists(org) ==
    IF Len(orgs) = 1 THEN {<<>>, <<"alice">>, <<"alice", "bob">>}
    ELSE IF org = "orgA" THEN {<<>>, <<"alice">>, <<"bob">>}
    ELSE {<<>>, <<"bob">>}

\* Sorted lists of at most n people.
RECURSIVE PeopleLists(_, _)
PeopleLists(from, n) ==
    {<<>>} \cup
    (IF n = 0 THEN {}
     ELSE UNION {{<<NamePool[i]>> \o l : l \in PeopleLists(i + 1, n - 1)} :
                    i \in {j \in from..Len(NamePool) : NamePool[j] \in People}})

Users(logins) == [i \in DOMAIN logins |-> User(logins[i])]

\* The repository an organization owns in the plain world.
RepoName(org) == IF org = "orgA" THEN "site" ELSE "docs"

\* The plain world: every list endpoint has one page or none, an empty
\* repository has contributors or answers without JSON, a repository asked
\* for under an organization that does not own it is not found, and a user's
\* profile is served or not found.
PlainLists(url) ==
    LET last == url[Len(url)]
        first == url[4]
    IN
    CASE first = "orgs" /\ last = "members" ->
            {ListResp(<<User(Name(OrgOffset(url[5]) + 1))>>)}
      [] first = "orgs" /\ last = "repos" ->
            {ListResp(<<[name |-> RepoName(url[5]), language |-> "Python", id |-> "1"]>>)}
      [] first = "repos" /\ last = "contributors" ->
            IF url[6] = RepoName(url[5])
            THEN {ListResp(<<[login |-> "carol", contributions |-> "7"]>>),
                  Fault("wrong_content_type")}
            ELSE {ErrorObject}
      [] first = "users" /\ last = "repos" ->
            {ListResp(<<[full_name |-> "dotfiles", fork |-> "False", id |-> "2"]>>)}
      [] first = "users" /\ last = "starred" -> {EmptyList}
      [] first = "users" /\ last = "followers" -> {ListResp(<<User("carol")>>)}
      [] first = "users" /\ last = "following" -> {EmptyList}
      [] first = "users" /\ last = "orgs" -> {ListResp(<<User("orgA")>>)}
      [] first = "users" -> {ObjectResp([login |-> last, name |-> "A. User"]),
                             ErrorObject}
      [] OTHER -> {EmptyList}

\* A list served on the first request and an empty page after it.
Once(served, firsts) == IF served = <<>> THEN firsts ELSE {EmptyList}

\* What the API may answer to the next page of url, after the pages in served.
Responses(url, served) ==
    LET last == url[Len(url)]
        first == url[4]
    IN
    CASE profile = "fetch" /\ first = "orgs" /\ last = "members" ->
            (IF Len(served) < MaxPages
             THEN {ListResp([i \in 1..n |-> MemberItem(url[5], ItemsServed(served) + i)]) :
                        n \in 1..MaxItems}
             ELSE {})
            \cup {EmptyList} \cup Faults
      [] profile = "graph" /\ first = "orgs" /\ last = "members" ->
            IF served = <<>>
            THEN {ListResp(Users(l)) : l \in MemberLists(url[5])}
            ELSE {EmptyList}
      [] profile = "graph" /\ first = "users" /\ last \in {"followers", "following"} ->
            IF served = <<>>
            THEN {ListResp(Users(l)) : l \in PeopleLists(1, MaxFollow)}
            ELSE {EmptyList}
      [] profile = "plain" -> Once(served, PlainLists(url))
      [] OTHER -> {EmptyList}

\* ---------------------------------------------------------------- call_api
\* asyncio.create_task(self.call_api(url, **added_fields)): page = 1, json_data = [];
\* requests lists the pages the coroutine has asked session.get for.
NewTask(url, added_fields, batch) ==
    [url |-> url, added |-> added_fields, batch |-> batch, page |-> 1,
     json_data |-> <<>>, state |-> "pending", exc |-> "none", requests |-> <<>>]

\* The request sent again instead of the exception leaving call_api.
RaiseThenRetry(task, exception) == task

Raise(task, exception) == [task EXCEPT !.state = "failed", !.exc = exception]

\* json_data.extend(json_page)
ExtendReplacing(json_data, json_page) == json_page

\* A page put in front of the pages before it.
ExtendInFront(json_data, json_page) == json_page \o json_data

Extend(json_data, json_page) == json_data \o json_page

\* The exception a response makes session.get() or resp.json() raise, if any.
TransportException(resp) ==
    CASE resp.kind = "transport_error" -> "ClientConnectionError"
      [] resp.kind = "wrong_content_type" -> "ContentTypeError"
      [] resp.kind = "malformed_json" -> "JSONDecodeError"
      [] OTHER -> "none"

\* One pass of call_api from a request to the next await: the single-object
\* branch, or one round of the while loop.  Every call site passes added_fields,
\* so tagging a JSON array in the single branch, or the keys of a JSON object in
\* the loop, is an item assignment on a list or a str: a TypeError.
Step(task, resp) ==
    LET sent == [task EXCEPT !.requests = Append(@, task.page)] IN
    IF TransportException(resp) # "none" THEN Raise(sent, TransportException(resp))
    ELSE IF Mode(task.url) = "single"
    THEN IF resp.kind = "list" THEN Raise(sent, "TypeError")
         ELSE [sent EXCEPT !.json_data = <<Tag(resp.body[1], task.added)>>,
                           !.state = "done"]
    ELSE IF resp.kind # "list" THEN Raise(sent, "TypeError")
    ELSE IF resp.body = <<>> THEN [sent EXCEPT !.state = "done"]
    ELSE [sent EXCEPT !.json_data = Extend(@, TagAll(resp.body, task.added)),
                      !.page = @ + 1]

Served(url) == IF url \in DOMAIN source THEN source[url] ELSE <<>>

\* The answers the API may give to page `page` of url.
Answers(url, page, served) ==
    IF page <= Len(served) THEN {served[page]} ELSE Responses(url, served)

Remember(served, page, resp) ==
    IF page <= Len(served) THEN served ELSE Append(served, resp)

\* One request of task i and what call_api does with the response.
CallApiStep(i) ==
    /\ tasks[i].state = "pending"
    /\ \E resp \in Answers(tasks[i].url, tasks[i].page, Served(tasks[i].url)) :
        /\ tasks' = [tasks EXCEPT ![i] = Step(tasks[i], resp)]
        /\ source' = (tasks[i].url :> Remember(Served(tasks[i].url), tasks[i].page, resp))
                        @@ source
    /\ UNCHANGED <<profile, args, config, orgs, pc, queue, members, repos,
                   locals, full_json, files, exc, log>>

\* call_api from its first request to its return or its exception.
RECURSIVE Runs(_, _)
Runs(task, served) ==
    UNION {LET t == Step(task, resp)
               s == Remember(served, task.page, resp)
           IN IF t.state = "pending" THEN Runs(t, s)
              ELSE {[task |-> t, served |-> s]} :
           resp \in Answers(task.url, task.page, served)}

CallApiRun(i) ==
    /\ tasks[i].state = "pending"
    /\ \E r \in Runs(tasks[i], Served(tasks[i].url)) :
        /\ tasks' = [tasks EXCEPT ![i] = r.task]
        /\ source' = (tasks[i].url :> r.served) @@ source
    /\ UNCHANGED <<profile, args, config, orgs, pc, queue, members, repos,
                   locals, full_json, files, exc, log>>

\* --------------------------------------------------------------- load_json
Batch(b) == {i \in DOMAIN tasks : tasks[i].batch = b}

\* asyncio.wait(tasks, return_when="ALL_COMPLETED") returns
FirstCompleted(b) == \E i \in Batch(b) : tasks[i].state # "pending"

AllCompleted(b) == \A i \in Batch(b) : tasks[i].state # "pending"

\* except aiohttp.ContentTypeError: pass
Caught(exception) == exception = "ContentTypeError"

\* The except clause leaving the loop instead of passing.
RECURSIVE LoadJsonLoopBreaking(_, _)
LoadJsonLoopBreaking(order, json) ==
    IF order = <<>> THEN [exc |-> "none", json |-> json]
    ELSE LET task == tasks[Head(order)] IN
         IF task.state = "done"
         THEN LoadJsonLoopBreaking(Tail(order), json \o task.json_data)
         ELSE IF Caught(task.exc) THEN [exc |-> "none", json |-> json]
         ELSE [exc |-> task.exc, json |-> <<>>]

\* for task in done: try: full_json.extend(await task) ...
RECURSIVE LoadJsonLoop(_, _)
LoadJsonLoop(order, json) ==
    IF order = <<>> THEN [exc |-> "none", json |-> json]
    ELSE LET task == tasks[Head(order)] IN
         IF task.state = "done"
         THEN LoadJsonLoop(Tail(order), json \o task.json_data)
         ELSE IF Caught(task.exc) THEN LoadJsonLoop(Tail(order), json)
         ELSE [exc |-> task.exc, json |-> <<>>]

\* What load_json may return or raise once asyncio.wait has returned: `done` is
\* a set, iterated in any order; asyncio.wait refuses an empty list of tasks.
LoadJson(b) ==
    IF Batch(b) = {} THEN {[exc |-> "ValueError", json |-> <<>>]}
    ELSE {LoadJsonLoop(order, <<>>) :
            order \in Orderings({i \in Batch(b) : tasks[i].state # "pending"})}

\* asyncio.wait returning without waiting.
JoinableAtOnce(b) == TRUE

\* load_json can return: the batch is empty (asyncio.wait raises at once) or
\* asyncio.wait has returned.
Joinable(b) == Batch(b) = {} \/ AllCompleted(b)

\* -------------------------------------------------------------------- main
AnyArg(a) == \E k \in DOMAIN a : a[k]

\* called_args = [arg for arg, value in args.items() if value]
CalledArgs(a) == SelectSeq(ArgOrder, LAMBDA k : a[k])

\* The operations main() calls, in order: every one but "all" under --all.
Operations(a) ==
    IF a["all"] THEN SelectSeq(ArgOrder, LAMBDA k : k # "all") ELSE CalledArgs(a)

\* require_repos read where require_members is meant to be.
NeedReposLikeMembers(a) == a["all"] \/ \E k \in Range(CalledArgs(a)) : k \in require_members

NeedMembers(a) == a["all"] \/ \E k \in Range(CalledArgs(a)) : k \in require_members

NeedRepos(a) == a["all"] \/ \E k \in Range(CalledArgs(a)) : k \in require_repos

AfterMembers(a) == IF NeedRepos(a) THEN "get_org_repos" ELSE "run_ops"

Crash(exception) ==
    /\ pc' = "crashed"
    /\ exc' = exception

\* main() going on without credentials.
MainWithoutConfigCheck ==
    /\ pc = "start"
    /\ IF ~AnyArg(args) \/ orgs = <<>>
       THEN /\ pc' = "exit"
            /\ exc' = "SystemExit"
            /\ queue' = queue
       ELSE /\ pc' = (IF NeedMembers(args) THEN "get_members" ELSE AfterMembers(args))
            /\ exc' = exc
            /\ queue' = Operations(args)
    /\ UNCHANGED <<profile, args, config, orgs, source, members, repos, tasks,
                   locals, full_json, files, log>>

\* main() up to its first await: parse_args, read_config, read_organizations,
\* GithubScraper(organizations, session).
Main ==
    /\ pc = "start"
    /\ IF ~AnyArg(args) \/ config # "ok" \/ orgs = <<>>
       THEN /\ pc' = "exit"
            /\ exc' = "SystemExit"
            /\ queue' = queue
       ELSE /\ pc' = (IF NeedMembers(args) THEN "get_members" ELSE AfterMembers(args))
            /\ exc' = exc
            /\ queue' = Operations(args)
    /\ UNCHANGED <<profile, args, config, orgs, source, members, repos, tasks,
                   locals, full_json, files, log>>

\* get_members up to its await: one task per entry of self.orgs.
GetMembers ==
    /\ pc = "get_members"
    /\ tasks' = [i \in DOMAIN orgs |->
                    NewTask(ApiUrl(<<"orgs", orgs[i], "members">>),
                            [organization |-> orgs[i]], 1)]
    /\ pc' = "get_members_await"
    /\ log' = Append(log, "get_members")
    /\ UNCHANGED <<profile, args, config, orgs, source, queue, members, repos,
                   locals, full_json, files, exc>>

RECURSIVE Dedup(_)
Dedup(seq) ==
    IF seq = <<>> THEN <<>>
    ELSE LET front == Dedup(SubSeq(seq, 1, Len(seq) - 1))
             x == seq[Len(seq)]
         IN IF x \in Range(front) THEN front ELSE Append(front, x)

Logins(items) == [i \in DOMAIN items |-> items[i]["login"]]

\* members[org] = [] for every org, then
\* members[member["organization"]].append(member["login"])
MembersDict(json) ==
    [keys |-> Dedup(orgs),
     val |-> [org \in Range(orgs) |->
                Logins(SelectSeq(json, LAMBDA m : m["organization"] = org))]]

\* get_members from the return of asyncio.wait to its own return, and main()'s
\* assignment to self.members.
GetMembersReturn ==
    /\ pc = "get_members_await"
    /\ Joinable(1)
    /\ \E r \in LoadJson(1) :
        IF r.exc # "none"
        THEN Crash(r.exc) /\ UNCHANGED <<members, full_json, log>>
        ELSE IF \E i \in DOMAIN r.json : "login" \notin DOMAIN r.json[i]
        THEN Crash("KeyError") /\ full_json' = r.json /\ UNCHANGED <<members, log>>
        ELSE /\ members' = MembersDict(r.json)
             /\ full_json' = r.json
             /\ pc' = AfterMembers(args)
             /\ exc' = exc
             /\ log' = Append(log, "members_loaded")
    /\ UNCHANGED <<profile, args, config, orgs, source, queue, repos, tasks,
                   locals, files>>

\* ------------------------------------------------ the fetch specification
\* The run up to the return of get_members, with the members endpoint paging,
\* failing and answering in every way the bounds allow.
ArgsOf(chosen) == [k \in ArgNames |-> k \in chosen]

NoLocals == [graph_full |-> EmptyGraph, graph_narrow |-> EmptyGraph, json |-> <<>>]

InitCommon ==
    /\ source = <<>>
    /\ pc = "start"
    /\ queue = <<>>
    /\ members = EmptyDict
    /\ repos = <<>>
    /\ tasks = <<>>
    /\ locals = NoLocals
    /\ full_json = <<>>
    /\ files = <<>>
    /\ exc = "none"
    /\ log = <<>>

InitFetch ==
    /\ profile = "fetch"
    /\ args \in {ArgsOf({"all"}), ArgsOf({"get_members_info"})}
    /\ orgs \in {<<"orgA">>, <<"orgA", "orgB">>, <<"orgA", "orgA">>}
    /\ config = "ok"
    /\ InitCommon

NextFetch ==
    \/ Main
    \/ GetMembers
    \/ \E i \in DOMAIN tasks : CallApiStep(i)
    \/ GetMembersReturn

SpecFetch == InitFetch /\ [][NextFetch]_vars

\* ----------------------------------------------------------- operations
\* for org in keys: for member in self.members[org]
MemberPairs(keys) ==
    Flatten([i \in DOMAIN keys |->
                [j \in DOMAIN members.val[keys[i]] |->
                    <<keys[i], members.val[keys[i]][j]>>]])

\* main(): the for loop over the operations has none left.
MainDone ==
    /\ pc = "run_ops"
    /\ queue = <<>>
    /\ pc' = "done"
    /\ UNCHANGED <<profile, args, config, orgs, source, queue, members, repos,
                   tasks, locals, full_json, files, exc, log>>

Calling(op) == pc = "run_ops" /\ queue # <<>> /\ Head(queue) = op

\* An operation returns to main()'s loop.
Return ==
    /\ pc' = "run_ops"
    /\ queue' = Tail(queue)
    /\ exc' = exc

\* nx.write_gexf(graph, path)
WriteGexf(written, name, graph) == (name :> graph) @@ written

\* ------------------------------------------------------------ generate_csv
\* csv.DictWriter(file, fieldnames=columns_list, extrasaction="ignore"): a
\* missing key is written as the empty string.
RowSkippingMissing(item, columns_list) ==
    LET present == SelectSeq(columns_list, LAMBDA c : c \in DOMAIN item)
    IN [c \in DOMAIN present |-> item[present[c]]]

Row(item, columns_list) ==
    [c \in DOMAIN columns_list |->
        IF columns_list[c] \in DOMAIN item THEN item[columns_list[c]] ELSE ""]

\* open(..., "a+"), writeheader(), writerow(item) for every item
GenerateCsv(written, file_name, json_list, columns_list) ==
    (file_name :> ((IF file_name \in DOMAIN written THEN written[file_name] ELSE <<>>)
                    \o <<columns_list>>
                    \o [i \in DOMAIN json_list |-> Row(json_list[i], columns_list)]))
        @@ written

\* ------------------------------------------------------------ get_org_repos
GetOrgRepos ==
    /\ pc = "get_org_repos"
    /\ tasks' = [i \in DOMAIN orgs |->
                    NewTask(ApiUrl(<<"orgs", orgs[i], "repos">>),
                            [organization |-> orgs[i]], 1)]
    /\ pc' = "get_org_repos_await"
    /\ log' = Append(log, "get_org_repos")
    /\ UNCHANGED <<profile, args, config, orgs, source, queue, members, repos,
                   locals, full_json, files, exc>>

\* return await self.load_json(tasks), and main()'s assignment to self.repos
GetOrgReposReturn ==
    /\ pc = "get_org_repos_await"
    /\ Joinable(1)
    /\ \E r \in LoadJson(1) :
        IF r.exc # "none"
        THEN Crash(r.exc) /\ UNCHANGED <<repos, full_json, log>>
        ELSE /\ repos' = r.json
             /\ full_json' = r.json
             /\ pc' = "run_ops"
             /\ exc' = exc
             /\ log' = Append(log, "repos_loaded")
    /\ UNCHANGED <<profile, args, config, orgs, source, queue, members, tasks,
                   locals, files>>

\* ------------------------------------------------------ create_org_repo_csv
OrgRepoColumns == <<"organization", "name", "full_name", "stargazers_count",
                    "language", "created_at", "updated_at", "homepage", "fork",
                    "description">>

\* The operation taking the repositories off self.repos as it writes them.
CreateOrgRepoCsvConsuming ==
    /\ Calling("create_org_repo_csv")
    /\ files' = GenerateCsv(files, "org_repositories.csv", repos, OrgRepoColumns)
    /\ log' = Append(log, "create_org_repo_csv")
    /\ Return
    /\ repos' = <<>>
    /\ UNCHANGED <<profile, args, config, orgs, source, members, tasks,
                   locals, full_json>>

CreateOrgRepoCsv ==
    /\ Calling("create_org_repo_csv")
    /\ files' = GenerateCsv(files, "org_repositories.csv", repos, OrgRepoColumns)
    /\ log' = Append(log, "create_org_repo_csv")
    /\ Return
    /\ UNCHANGED <<profile, args, config, orgs, source, members, repos, tasks,
                   locals, full_json>>

\* ---------------------------------------------------- get_repo_contributors
ContributorColumns == <<"organization", "repository", "login", "contributions",
                        "html_url", "url">>

\* for org in self.orgs: for repo in self.repos
ContributorTasks ==
    Flatten([i \in DOMAIN orgs |->
                [j \in DOMAIN repos |->
                    NewTask(ApiUrl(<<"repos", orgs[i], repos[j]["name"], "contributors">>),
                            [organization |-> orgs[i], repository |-> repos[j]["name"]],
                            1)]])

GetRepoContributors ==
    /\ Calling("get_repo_contributors")
    /\ tasks' = ContributorTasks
    /\ locals' = NoLocals
    /\ pc' = "get_repo_contributors_await"
    /\ log' = Append(log, "get_repo_contributors")
    /\ UNCHANGED <<profile, args, config, orgs, source, queue, members, repos,
                   full_json, files, exc>>

\* for contributor in json_contributors_all: add_node, add_edge
RECURSIVE ContributorGraph(_, _)
ContributorGraph(json, g) ==
    IF json = <<>> THEN g
    ELSE LET c == Head(json) IN
         ContributorGraph(Tail(json),
            AddEdge(AddNode(g, c["repository"], [organization |-> c["organization"]]),
                    c["login"], c["repository"], [organization |-> c["organization"]]))

GetRepoContributorsReturn ==
    /\ pc = "get_repo_contributors_await"
    /\ Joinable(1)
    /\ \E r \in LoadJson(1) :
        IF r.exc # "none"
        THEN Crash(r.exc) /\ UNCHANGED <<queue, full_json, files>>
        ELSE /\ full_json' = r.json
             /\ files' = WriteGexf(GenerateCsv(files, "contributor_list.csv", r.json,
                                               ContributorColumns),
                                   "contributor_network.gexf",
                                   ContributorGraph(r.json, EmptyGraph))
             /\ Return
    /\ UNCHANGED <<profile, args, config, orgs, source, members, repos, tasks,
                   locals, log>>

\* ------------------------------ get_members_repos, get_starred_repos
MembersReposColumns == <<"organization", "user", "full_name", "fork",
                         "stargazers_count", "forks_count", "language", "description">>

StarredColumns == <<"organization", "user", "full_name", "html_url", "language",
                    "description">>

\* for org in self.members: for member in self.members[org]
MemberListTasks(what) ==
    LET pairs == MemberPairs(members.keys) IN
    [n \in DOMAIN pairs |->
        NewTask(ApiUrl(<<"users", pairs[n][2], what>>),
                [organization |-> pairs[n][1], user |-> pairs[n][2]], 1)]

\* An operation that fetches one batch and writes one table: up to its await.
Fetch(op, batch) ==
    /\ Calling(op)
    /\ tasks' = batch
    /\ pc' = op \o "_await"
    /\ log' = Append(log, op)
    /\ UNCHANGED <<profile, args, config, orgs, source, queue, members, repos,
                   locals, full_json, files, exc>>

\* ... and from its await to its return.
WriteTable(op, file_name, columns_list) ==
    /\ pc = op \o "_await"
    /\ Joinable(1)
    /\ \E r \in LoadJson(1) :
        IF r.exc # "none"
        THEN Crash(r.exc) /\ UNCHANGED <<queue, full_json, files>>
        ELSE /\ full_json' = r.json
             /\ files' = GenerateCsv(files, file_name, r.json, columns_list)
             /\ Return
    /\ UNCHANGED <<profile, args, config, orgs, source, members, repos, tasks,
                   locals, log>>

GetMembersRepos == Fetch("get_members_repos", MemberListTasks("repos"))

GetMembersReposReturn ==
    WriteTable("get_members_repos", "members_repositories.csv", MembersReposColumns)

GetStarredRepos == Fetch("get_starred_repos", MemberListTasks("starred"))

GetStarredReposReturn ==
    WriteTable("get_starred_repos", "starred_repositories.csv", StarredColumns)

\* --------------------------------------------------------- get_members_info
MembersInfoColumns == <<"organization", "login", "name", "url", "type", "company",
                        "blog", "location">>

\* for org in self.orgs: for member in self.members[org]
MembersInfoTasks ==
    LET pairs == MemberPairs(orgs) IN
    [n \in DOMAIN pairs |->
        NewTask(ApiUrl(<<"users", pairs[n][2]>>), [organization |-> pairs[n][1]], 1)]

GetMembersInfo == Fetch("get_members_info", MembersInfoTasks)

GetMembersInfoReturn ==
    WriteTable("get_members_info", "members_info.csv", MembersInfoColumns)

\* --------------------------------------------- generate_memberships_network
MembershipTasks ==
    LET pairs == MemberPairs(members.keys) IN
    [n \in DOMAIN pairs |->
        NewTask(ApiUrl(<<"users", pairs[n][2], "orgs">>),
                [organization |-> pairs[n][1], scraped_org_member |-> pairs[n][2]], 1)]

GenerateMembershipsNetwork == Fetch("generate_memberships_network", MembershipTasks)

\* for membership in json_org_memberships: add_node, add_edge
RECURSIVE MembershipGraph(_, _)
MembershipGraph(json, g) ==
    IF json = <<>> THEN g
    ELSE LET m == Head(json) IN
         MembershipGraph(Tail(json),
            AddEdge(AddNode(g, m["scraped_org_member"], [node_type |-> "user"]),
                    m["scraped_org_member"], m["login"], [node_type |-> "organization"]))

GenerateMembershipsNetworkReturn ==
    /\ pc = "generate_memberships_network_await"
    /\ Joinable(1)
    /\ \E r \in LoadJson(1) :
        IF r.exc # "none"
        THEN Crash(r.exc) /\ UNCHANGED <<queue, full_json, files>>
        ELSE /\ full_json' = r.json
             /\ files' = WriteGexf(files, "membership_network.gexf",
                                   MembershipGraph(r.json, EmptyGraph))
             /\ Return
    /\ UNCHANGED <<profile, args, config, orgs, source, members, repos, tasks,
                   locals, log>>

\* ------------------------------------------------ generate_follower_network
\* graph_full.add_node(member, organization=org) and the same on graph_narrow
RECURSIVE MemberNodes(_, _)
MemberNodes(pairs, g) ==
    IF pairs = <<>> THEN g
    ELSE MemberNodes(Tail(pairs),
                     AddNode(g, Head(pairs)[2], [organization |-> Head(pairs)[1]]))

\* One followers task and one following task per member of every organization.
FollowTasks(pairs) ==
    [n \in 1..(2 * Len(pairs)) |->
        LET pair == pairs[(n + 1) \div 2] IN
        IF n % 2 = 1
        THEN NewTask(ApiUrl(<<"users", pair[2], "followers">>),
                     [follows |-> pair[2], original_org |-> pair[1]], 1)
        ELSE NewTask(ApiUrl(<<"users", pair[2], "following">>),
                     [followed_by |-> pair[2], original_org |-> pair[1]], 2)]

\* generate_follower_network up to its first await.
GenerateFollowerNetwork ==
    /\ Calling("generate_follower_network")
    /\ locals' = [graph_full |-> MemberNodes(MemberPairs(orgs), EmptyGraph),
                  graph_narrow |-> MemberNodes(MemberPairs(orgs), EmptyGraph),
                  json |-> <<>>]
    /\ tasks' = FollowTasks(MemberPairs(members.keys))
    /\ pc' = "generate_follower_network_await"
    /\ log' = Append(log, "generate_follower_network")
    /\ UNCHANGED <<profile, args, config, orgs, source, queue, members, repos,
                   full_json, files, exc>>

\* json_followers = await self.load_json(tasks_followers)
FollowersLoaded ==
    /\ pc = "generate_follower_network_await"
    /\ Joinable(1)
    /\ \E r \in LoadJson(1) :
        IF r.exc # "none"
        THEN Crash(r.exc) /\ UNCHANGED <<locals, full_json>>
        ELSE /\ locals' = [locals EXCEPT !.json = r.json]
             /\ full_json' = r.json
             /\ pc' = "generate_follower_network_await2"
             /\ exc' = exc
    /\ UNCHANGED <<profile, args, config, orgs, source, queue, members, repos,
                   tasks, files, log>>

\* The narrow graph's test applied to the member whose list the item is from.
SubjectInOrg(item) ==
    (IF "follows" \in DOMAIN item THEN item["follows"] ELSE item["followed_by"])
        \in Range(members.val[item["original_org"]])

\* The narrow graph's test letting every relation pass.
InOrgAlways(item) == TRUE

\* follower["login"] in self.members[follower["original_org"]]
InOrg(item) == item["login"] \in Range(members.val[item["original_org"]])

\* The edge of a following item with its ends exchanged.
FollowingEdgeReversed(item) == <<item["login"], item["followed_by"]>>

\* The edge a followers item and a following item stand for.
FollowerEdge(item) == <<item["login"], item["follows"]>>

FollowingEdge(item) == <<item["followed_by"], item["login"]>>

\* One round of either loop that builds the full and the narrow graph.
AddFollow(graphs, edge, item) ==
    [graph_full |-> AddEdge(graphs.graph_full, edge[1], edge[2],
                            [organization |-> item["original_org"]]),
     graph_narrow |-> IF InOrg(item)
                      THEN AddEdge(graphs.graph_narrow, edge[1], edge[2],
                                   [organization |-> item["original_org"]])
                      ELSE graphs.graph_narrow]

\* for follower in json_followers: ...
RECURSIVE AddFollowers(_, _)
AddFollowers(json, graphs) ==
    IF json = <<>> THEN graphs
    ELSE AddFollowers(Tail(json),
                      AddFollow(graphs, FollowerEdge(Head(json)), Head(json)))

\* for following in json_following: ...
RECURSIVE AddFollowing(_, _)
AddFollowing(json, graphs) ==
    IF json = <<>> THEN graphs
    ELSE AddFollowing(Tail(json),
                      AddFollow(graphs, FollowingEdge(Head(json)), Head(json)))

FollowGraphs(json_followers, json_following) ==
    AddFollowing(json_following,
                 AddFollowers(json_followers,
                              [graph_full |-> locals.graph_full,
                               graph_narrow |-> locals.graph_narrow]))

\* json_following = await self.load_json(tasks_following), the two loops and
\* the two files.
FollowingLoaded ==
    /\ pc = "generate_follower_network_await2"
    /\ Joinable(2)
    /\ \E r \in LoadJson(2) :
        IF r.exc # "none"
        THEN Crash(r.exc) /\ UNCHANGED <<queue, locals, full_json, files>>
        ELSE LET graphs == FollowGraphs(locals.json, r.json) IN
             /\ locals' = [graph_full |-> graphs.graph_full,
                           graph_narrow |-> graphs.graph_narrow,
                           json |-> locals.json]
             /\ full_json' = r.json
             /\ files' = WriteGexf(WriteGexf(files, "full-follower-network.gexf",
                                             graphs.graph_full),
                                   "narrow-follower-network.gexf", graphs.graph_narrow)
             /\ Return
    /\ UNCHANGED <<profile, args, config, orgs, source, members, repos, tasks, log>>

\* ---------------------------------------------- the follower specification
\* A run of --followers: the organizations' member lists and every followers
\* and following list vary; every fetch is one step.
InitFollow ==
    /\ profile = "graph"
    /\ args = ArgsOf({"generate_follower_network"})
    /\ orgs \in {<<"orgA">>, <<"orgA", "orgB">>}
    /\ config = "ok"
    /\ InitCommon

NextFollow ==
    \/ Main
    \/ GetMembers
    \/ \E i \in DOMAIN tasks : CallApiRun(i)
    \/ GetMembersReturn
    \/ GenerateFollowerNetwork
    \/ FollowersLoaded
    \/ FollowingLoaded
    \/ MainDone

SpecFollow == InitFollow /\ [][NextFollow]_vars

\* ------------------------------------------------- the graph specification
\* One graph built by any sequence of the insertions the operations make:
\* add_node(n, organization=org) and add_edge(u, v, organization=org), over
\* two nodes and two organizations.  locals.json lists the insertions made.
GraphNodes == {"alice", "site"}

Insertions ==
    {[kind |-> "node", u |-> n, v |-> n, attrs |-> [organization |-> org]] :
        n \in GraphNodes, org \in Range(OrgPool)}
    \cup
    {[kind |-> "edge", u |-> e[1], v |-> e[2], attrs |-> [organization |-> org]] :
        e \in GraphNodes \X GraphNodes, org \in Range(OrgPool)}

Insert(g, ins) ==
    IF ins.kind = "node" THEN AddNode(g, ins.u, ins.attrs)
    ELSE AddEdge(g, ins.u, ins.v, ins.attrs)

InitGraph ==
    /\ profile = "plain"
    /\ args = ArgsOf({"generate_follower_network"})
    /\ orgs = OrgPool
    /\ config = "ok"
    /\ InitCommon

GraphAddNode ==
    /\ Len(locals.json) < MaxInserts
    /\ \E ins \in {i \in Insertions : i.kind = "node"} :
        locals' = [locals EXCEPT !.graph_full = Insert(@, ins),
                                 !.json = Append(@, ins)]
    /\ UNCHANGED <<profile, args, config, orgs, source, pc, queue, members, repos,
                   tasks, full_json, files, exc, log>>

GraphAddEdge ==
    /\ Len(locals.json) < MaxInserts
    /\ \E ins \in {i \in Insertions : i.kind = "edge"} :
        locals' = [locals EXCEPT !.graph_full = Insert(@, ins),
                                 !.json = Append(@, ins)]
    /\ UNCHANGED <<profile, args, config, orgs, source, pc, queue, members, repos,
                   tasks, full_json, files, exc, log>>

NextGraph == GraphAddNode \/ GraphAddEdge

SpecGraph == InitGraph /\ [][NextGraph]_vars

\* --------------------------------------------------- the run specification
\* Every command line, every configuration and one or two organizations (or
\* the organization whose name is "users"), in the plain world; every fetch
\* is one step.
InitRun ==
    /\ profile = "plain"
    /\ args \in [ArgNames -> BOOLEAN]
    /\ orgs \in {<<>>, <<"orgA">>, <<"orgA", "orgB">>, <<"users">>}
    /\ InitCommon
    /\ config \in {"ok", "missing", "empty"}

Next ==
    \/ Main
    \/ GetMembers
    \/ GetMembersReturn
    \/ GetOrgRepos
    \/ GetOrgReposReturn
    \/ \E i \in DOMAIN tasks : CallApiRun(i)
    \/ CreateOrgRepoCsv
    \/ GetRepoContributors
    \/ GetRepoContributorsReturn
    \/ GetMembersRepos
    \/ GetMembersReposReturn
    \/ GetMembersInfo
    \/ GetMembersInfoReturn
    \/ GetStarredRepos
    \/ GetStarredReposReturn
    \/ GenerateFollowerNetwork
    \/ FollowersLoaded
    \/ FollowingLoaded
    \/ GenerateMembershipsNetwork
    \/ GenerateMembershipsNetworkReturn
    \/ MainDone

Spec == InitRun /\ [][Next]_vars

\* ---------------------------------------------- properties of a fetch batch
Bodies(served) == Flatten([p \in DOMAIN served |-> served[p].body])

\* The pages of a URL end with an empty array after non-empty arrays only.
EndsWithFirstEmptyPage(served) ==
    /\ served # <<>>
    /\ served[Len(served)] = EmptyList
    /\ \A p \in 1..(Len(served) - 1) :
            served[p].kind = "list" /\ served[p].body # <<>>

\* The request of a task failed: the API's last answer to it is no JSON array.
RequestFailed(url) ==
    Served(url) # <<>> /\ Served(url)[Len(Served(url))].kind # "list"

\* What a request contributes to its batch, read off the API's answers.
Expected(task) ==
    IF EndsWithFirstEmptyPage(Served(task.url))
    THEN TagAll(Bodies(Served(task.url)), task.added)
    ELSE <<>>

\* load_json has returned its list to get_members, which has returned.
MembersBatchReturned == pc \in {"get_org_repos", "run_ops"}

\* C1: a paginated call_api that returns has requested pages 1..N, page N being
\* the first empty one, and returns the items of pages 1..N-1 in page order and
\* within-page order (each with its context fields), whatever the other tasks
\* of the batch have done by then.
C1_PagesConcatenatedInOrder ==
    \A i \in DOMAIN tasks :
        (tasks[i].state = "done" /\ Mode(tasks[i].url) = "paginated") =>
            /\ EndsWithFirstEmptyPage(Served(tasks[i].url))
            /\ tasks[i].page = Len(Served(tasks[i].url))
            /\ tasks[i].json_data =
                    TagAll(Bodies(Served(tasks[i].url)), tasks[i].added)

\* A fetch of two pages with three items or more has returned while another
\* fetch of the batch is between two of its pages.
C1_Witness ==
    \E i, j \in DOMAIN tasks :
        /\ tasks[i].state = "done"
        /\ Len(Served(tasks[i].url)) = 3
        /\ Len(tasks[i].json_data) >= 3
        /\ tasks[j].state = "pending"
        /\ tasks[j].page = 2

C3_RequestFailureNeverEndsRun ==
    ~(pc = "crashed" /\ \E i \in DOMAIN tasks :
                            tasks[i].state = "failed" /\ tasks[i].exc = exc)

\* C4: once get_members is past its load_json (returned or raised), no task of
\* the batch is pending.
C4_JoinWaitsForAll ==
    (tasks # <<>> /\ pc # "get_members_await") =>
        \A i \in DOMAIN tasks : tasks[i].state # "pending"

\* load_json has returned a batch of two tasks, one of which needed one
\* request and the other three.
C4_Witness ==
    /\ MembersBatchReturned
    /\ \E i, j \in DOMAIN tasks :
        /\ Len(Served(tasks[i].url)) = 1
        /\ Len(Served(tasks[j].url)) = 3

\* C8: every field the API put on an item has, in the tagged item call_api
\* holds, the value the API gave it.
C8_TaggingKeepsSourceFields ==
    \A i \in DOMAIN tasks :
        LET given == Bodies(Served(tasks[i].url))
        IN \A n \in DOMAIN tasks[i].json_data :
            \A k \in DOMAIN given[n] : tasks[i].json_data[n][k] = given[n][k]

\* C9: tagging the items call_api holds once more with the same context fields
\* changes nothing, and every item carries every context field with the value
\* the caller gave.
C9_TaggingIdempotent ==
    \A i \in DOMAIN tasks :
        /\ TagAll(tasks[i].json_data, tasks[i].added) = tasks[i].json_data
        /\ \A n \in DOMAIN tasks[i].json_data :
            \A k \in DOMAIN tasks[i].added :
                /\ k \in DOMAIN tasks[i].json_data[n]
                /\ tasks[i].json_data[n][k] = tasks[i].added[k]

\* A task holds a tagged item on which the API had set a field named like a
\* context field.
C9_Witness ==
    \E i \in DOMAIN tasks :
        \E n \in DOMAIN tasks[i].json_data :
            /\ n <= Len(Bodies(Served(tasks[i].url)))
            /\ "organization" \in DOMAIN Bodies(Served(tasks[i].url))[n]
            /\ tasks[i].json_data[n]["organization"] = tasks[i].added["organization"]

\* ------------------------------------------- properties of the follower graphs
AllMembers == UNION {Range(members.val[org]) : org \in DOMAIN members.val}

\* The logins an endpoint of a member lists, read off the API's answers.
Listed(member, what) ==
    LET served == Served(ApiUrl(<<"users", member, what>>)) IN
    IF EndsWithFirstEmptyPage(served) THEN Range(Logins(Bodies(served))) ELSE {}

FollowersOf(member) == Listed(member, "followers")

FollowingOf(member) == Listed(member, "following")

\* u follows v, as far as the lists fetched for the members say.
Follows(u, v) ==
    \/ v \in AllMembers /\ u \in FollowersOf(v)
    \/ u \in AllMembers /\ v \in FollowingOf(u)

FollowerNetworkWritten ==
    {"full-follower-network.gexf", "narrow-follower-network.gexf"} \subseteq DOMAIN files

FullEdges == DOMAIN files["full-follower-network.gexf"].edges

NarrowEdges == DOMAIN files["narrow-follower-network.gexf"].edges

\* C5: the narrow graph has edge (u, v) exactly when a follow relation of the
\* full graph, found in the list of a member m of organization org, gives
\* (u, v) and the other user of that relation is in org's member list, the
\* allowed set of that relation; every narrow edge is an edge of the full graph.
C5_NarrowIsFilteredFull ==
    FollowerNetworkWritten =>
        /\ NarrowEdges \subseteq FullEdges
        /\ NarrowEdges =
            {e \in FullEdges :
                \/ \E org \in DOMAIN members.val :
                    /\ e[2] \in Range(members.val[org])
                    /\ e[1] \in FollowersOf(e[2])
                    /\ e[1] \in Range(members.val[org])
                \/ \E org \in DOMAIN members.val :
                    /\ e[1] \in Range(members.val[org])
                    /\ e[2] \in FollowingOf(e[1])
                    /\ e[2] \in Range(members.val[org])}

\* Both graphs are written, the narrow one has an edge and the full one has
\* an edge the narrow one lacks.
C5_Witness ==
    /\ FollowerNetworkWritten
    /\ NarrowEdges # {}
    /\ FullEdges \ NarrowEdges # {}

\* C6: whenever u and v are members of scraped organizations, the same or
\* different ones, and u follows v, the narrow graph has edge (u, v).
C6_NarrowLinksAllScrapedMembers ==
    FollowerNetworkWritten =>
        \A u \in AllMembers, v \in AllMembers :
            Follows(u, v) => <<u, v>> \in NarrowEdges

\* C7: the full graph's edges are the pairs (f, m) for f in the followers list
\* of a member m and (m, g) for g in the following list of a member m, and an
\* edge between two members of one organization is in the narrow graph too.
C7_FullEdgesAreFollows ==
    FollowerNetworkWritten =>
        /\ FullEdges = {<<u, v>> \in (People \cup AllMembers) \X (People \cup AllMembers) :
                            Follows(u, v)}
        /\ \A e \in FullEdges :
            (\E org \in DOMAIN members.val :
                {e[1], e[2]} \subseteq Range(members.val[org])) => e \in NarrowEdges

\* The full graph has an edge from a followers list only, one from a following
\* list only, and an edge between two different members of one organization.
C7_Witness ==
    /\ FollowerNetworkWritten
    /\ \E e \in FullEdges : e[2] \in AllMembers /\ e[1] \in FollowersOf(e[2])
                            /\ ~(e[1] \in AllMembers /\ e[2] \in FollowingOf(e[1]))
    /\ \E e \in FullEdges : e[1] \in AllMembers /\ e[2] \in FollowingOf(e[1])
                            /\ ~(e[2] \in AllMembers /\ e[1] \in FollowersOf(e[2]))
    /\ \E e \in FullEdges : \E org \in DOMAIN members.val :
            e[1] # e[2] /\ {e[1], e[2]} \subseteq Range(members.val[org])

\* ------------------------------------------------------ properties of a run
OperationNames == Range(ArgOrder) \ {"all"}

Count(event) == Cardinality({i \in DOMAIN log : log[i] = event})

LoadEvents == {"get_members", "members_loaded", "get_org_repos", "repos_loaded"}

\* main() has reached its loop over the operations.
OperationsEntered ==
    pc \in {"run_ops", "done"} \/ \E i \in DOMAIN log : log[i] \in OperationNames

\* C10: get_members is called exactly when --all is given or a selected
\* operation requires the members, get_org_repos likewise for the repositories;
\* each at most once, get_members (call and return) before get_org_repos, and
\* both returned before the first operation is called.
C10_IndexesLoadedWhenNeeded ==
    /\ Count("get_members") <= 1
    /\ Count("get_org_repos") <= 1
    /\ OperationsEntered =>
        /\ Count("members_loaded") = 1 <=>
                (args["all"] \/ \E op \in require_members : args[op])
        /\ Count("repos_loaded") = 1 <=>
                (args["all"] \/ \E op \in require_repos : args[op])
        /\ Count("get_members") = Count("members_loaded")
        /\ Count("get_org_repos") = Count("repos_loaded")
    /\ \A i, j \in DOMAIN log :
        /\ (log[i] = "get_org_repos" /\ log[j] \in {"get_members", "members_loaded"})
                => j < i
        /\ (log[i] \in OperationNames /\ log[j] \in LoadEvents) => j < i

\* A run without --all has ended: it loaded the members, skipped the
\* repositories and called an operation after the load.
C10_Witness ==
    /\ pc = "done"
    /\ ~args["all"]
    /\ log[1] = "get_members"
    /\ log[2] = "members_loaded"
    /\ Len(log) >= 3
    /\ Count("get_org_repos") = 0

\* C11: from the moment main() has reached its loop over the operations, no
\* step changes self.members or self.repos (keys, lists and their order).
C11_IndexesReadOnly ==
    [][OperationsEntered => (members' = members /\ repos' = repos)]_vars

\* A run of several operations, among them one that reads the members and one
\* that reads the repositories, has ended with both indexes loaded.
C11_Witness ==
    /\ pc = "done"
    /\ members.keys # <<>>
    /\ repos # <<>>
    /\ Count("create_org_repo_csv") = 1
    /\ Count("get_repo_contributors") = 1
    /\ Count("generate_follower_network") = 1

\* What main() exits on before it opens a session: no argument given, a
\* config.json that is missing or lacks a credential, no organization listed.
ConfigurationError == ~AnyArg(args) \/ config # "ok" \/ orgs = <<>>

\* C12: a run with a configuration error never gets past main()'s checks: it
\* creates no task and sends no request (the API has answered nothing), and
\* main() exits with SystemExit only on such an error.
C12_ConfigurationErrorSendsNothing ==
    /\ ConfigurationError =>
            /\ pc \in {"start", "exit"}
            /\ tasks = <<>>
            /\ source = <<>>
    /\ pc = "exit" => (exc = "SystemExit" /\ ConfigurationError)

\* A run with operations selected and organizations listed has exited on an
\* empty credential.
C12_Witness ==
    /\ pc = "exit"
    /\ config = "empty"
    /\ args["get_members_info"]
    /\ orgs = <<"orgA", "orgB">>

\* ------------------------------------------------ properties of one fetch
\* The API answered page p of url with a JSON array that is not empty.
NonEmptyPage(url, p) ==
    /\ p <= Len(Served(url))
    /\ Served(url)[p].kind = "list"
    /\ Served(url)[p].body # <<>>

\* C13: a paginated call_api has requested pages 1, 2, ... in this order,
\* each once; it is still running exactly while every answer it got was a
\* non-empty page (no empty page, no end); it has returned exactly when its
\* last request, and no request before it, got an empty page; and after a
\* failed request it has sent nothing more.
C13_EachPageRequestedOnce ==
    \A i \in DOMAIN tasks :
        Mode(tasks[i].url) = "paginated" =>
            LET t == tasks[i]
                n == Len(t.requests)
            IN
            /\ t.requests = [p \in 1..n |-> p]
            /\ \A p \in 1..(n - 1) : NonEmptyPage(t.url, p)
            /\ t.state = "pending" <=> (n = 0 \/ NonEmptyPage(t.url, n))
            /\ t.state = "done" <=> (n > 0 /\ Served(t.url)[n] = EmptyList)
            /\ t.state = "failed" <=> (n > 0 /\ Served(t.url)[n].kind # "list")

\* One fetch has returned after three requests, the third answered with the
\* first empty page, and another has failed on its second request.
C13_Witness ==
    \E i, j \in DOMAIN tasks :
        /\ tasks[i].state = "done"
        /\ tasks[i].requests = <<1, 2, 3>>
        /\ tasks[j].state = "failed"
        /\ tasks[j].requests = <<1, 2>>

\* f"https://api.github.com/users/{member}": the URL of a user's profile.
SingleUrl(url) == Len(url) = 5 /\ url[4] = "users"

\* C14: a fetch of a user's profile sends at most one request; once the
\* request is answered with a JSON object the fetch has returned, having asked
\* for no second page, and what it returns is the one-element list of that
\* object with the context fields set on it.
C14_SingleObjectFetch ==
    \A i \in DOMAIN tasks :
        SingleUrl(tasks[i].url) =>
            /\ Len(tasks[i].requests) <= 1
            /\ tasks[i].page = 1
            /\ tasks[i].requests # <<>> =>
                /\ tasks[i].state = "done"
                /\ tasks[i].requests = <<1>>
                /\ Len(tasks[i].json_data) = 1
                /\ tasks[i].json_data[1] =
                        Tag(Served(tasks[i].url)[1].body[1], tasks[i].added)

\* get_members_info holds alice's profile, tagged with her organization.
C14_Witness ==
    \E i \in DOMAIN tasks :
        /\ SingleUrl(tasks[i].url)
        /\ tasks[i].state = "done"
        /\ tasks[i].json_data =
                <<[login |-> "alice", name |-> "A. User", organization |-> "orgA"]>>

\* ------------------------------------------------ properties of get_members
NoDuplicates(seq) == \A i, j \in DOMAIN seq : seq[i] = seq[j] => i = j

\* The logins an organization's members endpoint returned, in its order.
MembersServed(org) ==
    LET served == Served(ApiUrl(<<"orgs", org, "members">>)) IN
    IF EndsWithFirstEmptyPage(served) THEN Logins(Bodies(served)) ELSE <<>>

\* C15: after get_members the member index has one key per organization of
\* the organization list, and the value of each is the list of logins its
\* members endpoint returned (empty if it returned none or the fetch failed),
\* in the order of the source and with no login twice.
C15_MemberIndexPerOrganization ==
    MembersBatchReturned =>
        /\ Range(members.keys) = Range(orgs)
        /\ NoDuplicates(members.keys)
        /\ DOMAIN members.val = Range(orgs)
        /\ \A org \in Range(orgs) :
            /\ members.val[org] = MembersServed(org)
            /\ NoDuplicates(members.val[org])

\* ----------------------------------------------- properties of the tables
\* The tables the operations write with generate_csv.
Tables ==
    {[op |-> "create_org_repo_csv", file |-> "org_repositories.csv",
      columns |-> OrgRepoColumns],
     [op |-> "get_repo_contributors", file |-> "contributor_list.csv",
      columns |-> ContributorColumns],
     [op |-> "get_members_repos", file |-> "members_repositories.csv",
      columns |-> MembersReposColumns],
     [op |-> "get_members_info", file |-> "members_info.csv",
      columns |-> MembersInfoColumns],
     [op |-> "get_starred_repos", file |-> "starred_repositories.csv",
      columns |-> StarredColumns]}

\* The operation that returned last, while main() has not called the next.
JustReturned(op) ==
    pc \in {"run_ops", "done"} /\ log # <<>> /\ log[Len(log)] = op

\* The entities the operation that returned last passed to generate_csv.
Entities(op) == IF op = "create_org_repo_csv" THEN repos ELSE full_json

\* C16: when an operation has returned from generate_csv, its file holds the
\* header and then one row per entity, in the order of the entities; every row
\* has one cell per declared column, holding the entity's field of that name
\* or the empty string where the entity has none; no other field of the entity
\* is in the row, and the operation has not raised.
C16_CsvProjectsOntoColumns ==
    \A t \in Tables :
        JustReturned(t.op) =>
            /\ t.file \in DOMAIN files
            /\ Len(files[t.file]) = Len(Entities(t.op)) + 1
            /\ files[t.file][1] = t.columns
            /\ \A n \in DOMAIN Entities(t.op) :
                /\ DOMAIN files[t.file][n + 1] = DOMAIN t.columns
                /\ \A c \in DOMAIN t.columns :
                    files[t.file][n + 1][c] =
                        IF t.columns[c] \in DOMAIN Entities(t.op)[n]
                        THEN Entities(t.op)[n][t.columns[c]]
                        ELSE ""

\* get_members_repos has written two entities that have a field which is no
\* column (id) and lack a column (language).
C16_Witness ==
    /\ JustReturned("get_members_repos")
    /\ Len(full_json) = 2
    /\ "id" \in DOMAIN full_json[1]
    /\ "language" \notin DOMAIN full_json[1]
    /\ Len(files["members_repositories.csv"]) = 3

\* ----------------------------------------------- properties of the graphs
GraphFiles == {"contributor_network.gexf", "full-follower-network.gexf",
               "narrow-follower-network.gexf", "membership_network.gexf"}

\* C17: in every graph file written, every edge has the attribute
\* organization and every node has organization or node_type (or both).
C17_GraphAttributes ==
    \A f \in GraphFiles \cap DOMAIN files :
        /\ \A e \in DOMAIN files[f].edges :
                "organization" \in DOMAIN files[f].edges[e]
        /\ \A n \in DOMAIN files[f].nodes :
                DOMAIN files[f].nodes[n] \cap {"organization", "node_type"} # {}

\* The insertions of one kind made so far on a node or an ordered pair.
WritesOf(kind, u, v) ==
    {i \in DOMAIN locals.json :
        locals.json[i].kind = kind /\ locals.json[i].u = u /\ locals.json[i].v = v}

Latest(S) == CHOOSE i \in S : \A j \in S : j <= i

SameAttrs(a, b) == DOMAIN a = DOMAIN b /\ \A k \in DOMAIN a : a[k] = b[k]

\* C18: after any sequence of insertions the graph has one node per name
\* inserted or named by an edge and one edge per ordered pair inserted; a node
\* has the attributes of the last add_node of it, whatever edges were added
\* since, and none if it came from add_edge only; an edge has the attributes
\* of the last add_edge of its pair; and making the last insertion once more
\* leaves the graph as it is.
C18_SimpleDigraph ==
    LET g == locals.graph_full
        made == locals.json
        edgeWrites == {i \in DOMAIN made : made[i].kind = "edge"}
    IN
    pc = "start" =>
        /\ DOMAIN g.nodes = {made[i].u : i \in DOMAIN made}
                                \cup {made[i].v : i \in DOMAIN made}
        /\ DOMAIN g.edges = {<<made[i].u, made[i].v>> : i \in edgeWrites}
        /\ \A n \in DOMAIN g.nodes :
                IF WritesOf("node", n, n) = {} THEN DOMAIN g.nodes[n] = {}
                ELSE SameAttrs(g.nodes[n], made[Latest(WritesOf("node", n, n))].attrs)
        /\ \A e \in DOMAIN g.edges :
                SameAttrs(g.edges[e], made[Latest(WritesOf("edge", e[1], e[2]))].attrs)
        /\ made # <<>> => Insert(g, made[Len(made)]) = g

\* A node named first by an edge was added twice with different organizations
\* and then an edge of the same pair was added with another organization.
C18_Witness ==
    LET made == locals.json IN
    /\ pc = "start"
    /\ Len(made) = 4
    /\ made[1].kind = "edge" /\ made[1].v = "site" /\ made[1].u = "alice"
    /\ made[2].kind = "node" /\ made[2].u = "site"
    /\ made[3].kind = "node" /\ made[3].u = "site"
    /\ made[3].attrs # made[2].attrs
    /\ made[4].kind = "edge" /\ made[4].v = "site" /\ made[4].u = "alice"
    /\ made[4].attrs # made[1].attrs
    /\ locals.graph_full.nodes["site"]["organization"] = made[3].attrs["organization"]

\* ------------------------------------------ properties of the merged batch
\* The tasks of the batch that returned.
Returned == {i \in DOMAIN tasks : tasks[i].state = "done"}

\* The items the source returned to a request: page by page, and within a
\* page in the order of the page, each with the context fields of the request.
SourceBlock(i) == TagAll(Bodies(Served(tasks[i].url)), tasks[i].added)

\* C19: the list load_json returns is made of one contiguous block per request
\* that returned, the block being the request's items in source order (page
\* order, then order within the page); the blocks stand in some order of the
\* requests, whatever the order in which the tasks completed.
C19_BlocksInSourceOrder ==
    MembersBatchReturned =>
        \E order \in Orderings(Returned) :
            /\ full_json = Flatten([k \in DOMAIN order |-> SourceBlock(order[k])])
            /\ Len(full_json) = ItemsServed(Flatten([k \in DOMAIN order |->
                                                Served(tasks[order[k]].url)]))

\* load_json has returned the block of the second request, of two pages, in
\* front of the block of the first.
C19_Witness ==
    /\ MembersBatchReturned
    /\ Len(tasks) = 2
    /\ tasks[1].json_data # <<>>
    /\ tasks[2].requests = <<1, 2, 3>>
    /\ tasks[1].url # tasks[2].url
    /\ full_json = tasks[2].json_data \o tasks[1].json_data

\* --------------------------------------------- properties of the batch join
InFlight(b) == {i \in Batch(b) : tasks[i].state = "pending"}

\* The batch whose load_json the program is in, or will be in next.
Awaited == IF pc = "generate_follower_network_await2" THEN 2 ELSE 1

\* C20: in a step taken while a task is in flight, the member index, the repo
\* index, the graphs and the files stay as they are, no task is created, and
\* at most one task changes, a task that was in flight (its own page counter
\* and buffer); and while a task of the batch being awaited is in flight, the
\* merged result of that batch is not written.
C20_MergeOnlyAfterJoin ==
    [][/\ (InFlight(1) \cup InFlight(2) # {}) =>
            /\ members' = members
            /\ repos' = repos
            /\ files' = files
            /\ locals'.graph_full = locals.graph_full
            /\ locals'.graph_narrow = locals.graph_narrow
            /\ DOMAIN tasks' = DOMAIN tasks
            /\ \A i, j \in DOMAIN tasks :
                    (tasks'[i] # tasks[i] /\ tasks'[j] # tasks[j]) =>
                        (i = j /\ tasks[i].state = "pending")
       /\ InFlight(Awaited) # {} =>
            /\ full_json' = full_json
            /\ locals' = locals]_vars

\* The followers batch has been joined and merged while a task of the
\* following batch is in flight and another has returned; the graphs have
\* their member nodes and no edge yet.
C20_Witness ==
    /\ pc = "generate_follower_network_await2"
    /\ locals.json # <<>>
    /\ InFlight(1) = {}
    /\ InFlight(2) # {}
    /\ \E i \in Batch(2) : tasks[i].state = "done"
    /\ DOMAIN locals.graph_full.nodes # {}
    /\ DOMAIN locals.graph_full.edges = {}

\* ------------------------------------------ properties of the fetch mode
\* C21: a fetch is made in single-object mode exactly when its URL is that of
\* a user's profile, users/{login}; every list endpoint is paginated, whatever
\* the organization, the repository or the login is called.
C21_ModeByEndpoint ==
    \A i \in DOMAIN tasks :
        Mode(tasks[i].url) = "single" <=> SingleUrl(tasks[i].url)

\* ----------------------------------- properties of get_repo_contributors
\* get_repo_contributors has created its tasks and awaits them.
ContributorsSubmitted == pc = "get_repo_contributors_await"

\* The fetch a repository of the repo index calls for: the contributors of
\* the repository under the organization get_org_repos found it in.
ContributorFetchOf(repo) ==
    [url |-> ApiUrl(<<"repos", repo["organization"], repo["name"], "contributors">>),
     added |-> [organization |-> repo["organization"], repository |-> repo["name"]]]

\* C22: get_repo_contributors submits one fetch per repository of the repo
\* index, to the organization that owns it and tagged with that organization
\* and the repository name, no fetch to another organization, and no two
\* fetches of one URL.
C22_OneFetchPerRepository ==
    ContributorsSubmitted =>
        /\ Len(tasks) = Len(repos)
        /\ \A j \in DOMAIN repos :
                \E i \in DOMAIN tasks :
                    /\ tasks[i].url = ContributorFetchOf(repos[j]).url
                    /\ tasks[i].added = ContributorFetchOf(repos[j]).added
        /\ \A i \in DOMAIN tasks :
                \E j \in DOMAIN repos : tasks[i].url = ContributorFetchOf(repos[j]).url
        /\ \A i, k \in DOMAIN tasks : tasks[i].url = tasks[k].url => i = k

\* ------------------------------------ properties of the follower graphs' nodes
FullNodes == DOMAIN files["full-follower-network.gexf"].nodes

NarrowNodes == DOMAIN files["narrow-follower-network.gexf"].nodes

\* C23: when generate_follower_network has written its graphs, the nodes of
\* the narrow graph are the logins of the member index, all of them and no
\* other, and every one of them is a node of the full graph.
C23_NarrowNodesAreMembers ==
    FollowerNetworkWritten =>
        /\ NarrowNodes = AllMembers
        /\ NarrowNodes \subseteq FullNodes
        /\ \A e \in NarrowEdges : {e[1], e[2]} \subseteq AllMembers

\* The graphs are written; a member has an edge to a non-member in the full
\* graph and no edge in the narrow one, where it is a node all the same.
C23_Witness ==
    /\ FollowerNetworkWritten
    /\ FullNodes \ AllMembers # {}
    /\ \E m \in AllMembers :
        /\ \E e \in FullEdges : m \in {e[1], e[2]} /\ {e[1], e[2]} \ AllMembers # {}
        /\ \A e \in NarrowEdges : m \notin {e[1], e[2]}
        /\ m \in NarrowNodes
====
